---- MODULE Spec2Model ----
(***************************************************************************)
(* Student promotion routes of the college management backend              *)
(* (src/routes/studentpromotion.routes.js).                                *)
(*                                                                         *)
(* The database holds the students table and the promotions log.  A POST   *)
(* /promotions handler runs between its awaits as atomic steps: the code   *)
(* up to a pool.query call, the execution of the query by the database,    *)
(* and the continuation after the await are folded into one action per     *)
(* query.  Request bodies carry courseId and academicCourseYearId as text  *)
(* (a JSON number n reaches parseInt as the text String(n)).  The last     *)
(* part models how the subjects router (src/routes/subjects.routes.js)     *)
(* dispatches GET requests to its handlers, and the handlers of POST       *)
(* /addstudentresult (results.routes.js), DELETE /deletestudent            *)
(* (student.routes.js) and POST /payments (feeledger.routes.js).           *)
(***************************************************************************)
EXTENDS Integers, Sequences, FiniteSets, TLC

\* ---------------------------------------------------------------- bounds
MaxBatch == 3

\* ---------------------------------------------------------------- inputs
\* String(undefined): what parseInt sees for a field the body leaves out.
Undefined == <<"u", "n", "d", "e", "f", "i", "n", "e", "d">>

Item(u, c, y) == [username |-> u, courseId |-> c, academicCourseYearId |-> y]

\* Request items: B1 and B2 are enrolled in course 1, B9 is not enrolled.
PromotionItems ==
    {Item("B1", <<"1">>, <<"2">>),
     Item("B1", <<"1">>, <<"3">>),
     Item("B2", <<"1">>, <<"2">>),
     Item("B2", <<"2">>, <<"3", "a">>),
     Item("B2", <<"2">>, <<"2">>),
     Item("B9", <<"1">>, <<"2">>),
     Item("", <<"1">>, <<"2">>),
     Item("B2", Undefined, <<"2">>),
     Item("B2", <<"1">>, <<"a">>)}

Batches == UNION {[1..n -> PromotionItems] : n \in 0..MaxBatch}

Handlers == {1, 2}

\* ---------------------------------------------------------------- parseInt
Digits == <<"0", "1", "2", "3", "4", "5", "6", "7", "8", "9">>

IsDigit(c) == \E k \in 1..10 : Digits[k] = c

DigitVal(c) == (CHOOSE k \in 1..10 : Digits[k] = c) - 1

NaN == [nan |-> TRUE, val |-> 0]

Num(n) == [nan |-> FALSE, val |-> n]

RECURSIVE SkipWhite(_)
SkipWhite(s) == IF s # <<>> /\ Head(s) = " " THEN SkipWhite(Tail(s)) ELSE s

RECURSIVE AccDigits(_, _)
AccDigits(s, acc) ==
    IF s # <<>> /\ IsDigit(Head(s))
    THEN AccDigits(Tail(s), acc * 10 + DigitVal(Head(s)))
    ELSE acc

\* parseInt(text, 10): leading white space, an optional sign, then the
\* longest run of decimal digits; NaN when that run is empty.
parseInt(text) ==
    LET t == SkipWhite(text)
        neg == t # <<>> /\ Head(t) = "-"
        u == IF t # <<>> /\ Head(t) \in {"-", "+"} THEN Tail(t) ELSE t
    IN  IF u = <<>> \/ ~IsDigit(Head(u))
        THEN NaN
        ELSE Num(IF neg THEN 0 - AccDigits(u, 0) ELSE AccDigits(u, 0))

isNaN(x) == x.nan

\* ---------------------------------------------------------------- state
VARIABLES
    students,      \* students table: student_id -> row
    promotions,    \* promotions log: sequence of PromotionRecord rows
    clock,         \* database time, the source of created_at
    h,             \* POST /promotions handlers: handler -> local state
    lookup,        \* last answer of GET /promotions/:promotionId
    answer,        \* last answer of the listing routes of the promotion router
    served,        \* last request dispatched by the subjects router
    student_results, \* student results table: sequence of rows
    rh,            \* POST /addstudentresult handlers: handler -> local state
    login,         \* login table: the usernames with credentials
    dh,            \* DELETE /deletestudent handlers: handler -> local state
    payments,      \* payments table: sequence of rows
    ph,            \* POST /payments handlers: handler -> local state
    millis         \* Date.now() of the server, in milliseconds

\* The state of the routers other than the promotion and subjects routers.
otherRouters == <<student_results, rh, login, dh, payments, ph, millis>>

vars == <<students, promotions, clock, h, lookup, answer, served, otherRouters>>

StudentIds == {1, 2}

InitStudents ==
    [s \in StudentIds |->
        [student_id |-> s,
         username |-> IF s = 1 THEN "B1" ELSE "B2",
         full_name |-> IF s = 1 THEN "Asha" ELSE "Ravi",
         course_id |-> 1,
         academic_course_year_id |-> 1,
         enrollment_year |-> 2022]]

IdleHandler ==
    [pc |-> "idle", body |-> <<>>, idx |-> 0, courseId |-> 0,
     academicCourseYearId |-> 0, studentId |-> 0, promotionIds |-> <<>>,
     status |-> 0, reply |-> <<>>, fromYear |-> 0, responses |-> 0]

OffHandler == [IdleHandler EXCEPT !.pc = "off"]

NoLookup == [promotionId |-> 0, status |-> 0, rows |-> {}]

NoAnswer == [route |-> "", key |-> <<>>, status |-> 0, rows |-> <<>>]

NoRequest == [path |-> <<>>, route |-> "", status |-> 0]

\* No request of the results, student or fee ledger routers is under way.
OffRequest == [pc |-> "off", body |-> <<>>, status |-> 0, outcome |-> ""]

InitOtherRouters ==
    /\ student_results = <<>>
    /\ rh = [r \in Handlers |-> OffRequest]
    /\ login = {InitStudents[s].username : s \in StudentIds}
    /\ dh = [r \in Handlers |-> OffRequest]
    /\ payments = <<>>
    /\ ph = [r \in Handlers |-> OffRequest]
    /\ millis = 0

Init ==
    /\ InitOtherRouters
    /\ students = InitStudents
    /\ promotions = <<>>
    /\ clock = 0
    /\ h = [r \in Handlers |-> IF r = 1 THEN IdleHandler ELSE OffHandler]
    /\ lookup = NoLookup
    /\ answer = NoAnswer
    /\ served = NoRequest

\* ---------------------------------------------------------------- database
\* The query without its WHERE clause.
StudentQueryAll(tbl, username) ==
    {[student_id |-> tbl[s].student_id] : s \in DOMAIN tbl}

\* SELECT student_id FROM students WHERE username = $1
StudentQuery(tbl, username) ==
    {[student_id |-> tbl[s].student_id] : s \in {x \in DOMAIN tbl : tbl[x].username = username}}

\* rows[0] of a non-empty result
FirstRow(rows) == CHOOSE row \in rows : TRUE

\* The function with the update of the students table left out.
insert_student_promotion_RecordOnly(tbl, log, now, sid, cid, yid) ==
    LET rec == [promotion_id |-> Len(log) + 1,
                student_id |-> sid,
                course_id |-> cid,
                from_year |-> tbl[sid].academic_course_year_id,
                to_year |-> yid,
                created_at |-> now]
    IN  [students |-> tbl,
         promotions |-> Append(log, rec),
         promotion_id |-> rec.promotion_id]

\* The function keeping one record per student: the new record takes the
\* place of the student's earlier ones.
insert_student_promotion_Replace(tbl, log, now, sid, cid, yid) ==
    LET rec == [promotion_id |-> Len(log) + 1,
                student_id |-> sid,
                course_id |-> cid,
                from_year |-> tbl[sid].academic_course_year_id,
                to_year |-> yid,
                created_at |-> now]
    IN  [students |-> [tbl EXCEPT ![sid].academic_course_year_id = yid],
         promotions |-> Append(SelectSeq(log, LAMBDA row : row.student_id # sid), rec),
         promotion_id |-> rec.promotion_id]

\* The function taking from_year from its argument instead of the
\* student's row.
insert_student_promotion_FromTarget(tbl, log, now, sid, cid, yid) ==
    LET rec == [promotion_id |-> Len(log) + 1,
                student_id |-> sid,
                course_id |-> cid,
                from_year |-> yid,
                to_year |-> yid,
                created_at |-> now]
    IN  [students |-> [tbl EXCEPT ![sid].academic_course_year_id = yid],
         promotions |-> Append(log, rec),
         promotion_id |-> rec.promotion_id]

\* insert_student_promotion(student_id, course_id, year_id): one statement,
\* so one transaction.  It appends the PromotionRecord, moves the student's
\* current year to the target year and returns the new promotion_id.
insert_student_promotion(tbl, log, now, sid, cid, yid) ==
    LET rec == [promotion_id |-> Len(log) + 1,
                student_id |-> sid,
                course_id |-> cid,
                from_year |-> tbl[sid].academic_course_year_id,
                to_year |-> yid,
                created_at |-> now]
    IN  [students |-> [tbl EXCEPT ![sid].academic_course_year_id = yid],
         promotions |-> Append(log, rec),
         promotion_id |-> rec.promotion_id]

\* The function returning every record, whatever the id asked for.
get_promotion_by_id_Any(log, promotionId) ==
    {log[k] : k \in 1..Len(log)}

\* SELECT * FROM get_promotion_by_id($1)
get_promotion_by_id(log, promotionId) ==
    {log[k] : k \in {j \in 1..Len(log) : log[j].promotion_id = promotionId}}

\* ---------------------------------------------------------------- POST /promotions
\* res.status(st).json(...): promotionIds are part of the 201 body only.
Reply(hr, st, ids) ==
    [hr EXCEPT !.pc = "done", !.status = st, !.reply = ids, !.responses = @ + 1]

Falsy(username) == username = ""

\* The loop with courseId and academicCourseYearId taken one for the other.
LoopHeadSwapped(hr, i) ==
    IF i > Len(hr.body)
    THEN IF Len(hr.promotionIds) = 0
         THEN Reply(hr, 400, <<>>)
         ELSE Reply(hr, 201, hr.promotionIds)
    ELSE LET student == hr.body[i]
             courseId == parseInt(student.courseId)
             academicCourseYearId == parseInt(student.academicCourseYearId)
         IN  IF Falsy(student.username) \/ isNaN(courseId) \/ isNaN(academicCourseYearId)
             THEN Reply(hr, 400, <<>>)
             ELSE [hr EXCEPT !.pc = "lookup", !.idx = i,
                             !.courseId = academicCourseYearId.val,
                             !.academicCourseYearId = courseId.val]

\* Top of the for loop for item i, and the code after the loop.
LoopHead(hr, i) ==
    IF i > Len(hr.body)
    THEN IF Len(hr.promotionIds) = 0
         THEN Reply(hr, 400, <<>>)
         ELSE Reply(hr, 201, hr.promotionIds)
    ELSE LET student == hr.body[i]
             courseId == parseInt(student.courseId)
             academicCourseYearId == parseInt(student.academicCourseYearId)
         IN  IF Falsy(student.username) \/ isNaN(courseId) \/ isNaN(academicCourseYearId)
             THEN Reply(hr, 400, <<>>)
             ELSE [hr EXCEPT !.pc = "lookup", !.idx = i,
                             !.courseId = courseId.val,
                             !.academicCourseYearId = academicCourseYearId.val]

\* The handler from the arrival of the request to its first await.
Arrive(hr, b) ==
    IF Len(b) = 0
    THEN Reply([hr EXCEPT !.body = b], 400, <<>>)
    ELSE LoopHead([hr EXCEPT !.body = b], 1)

\* The request arrives; the handler runs up to its first await.
Post(r, b) ==
    /\ h[r].pc = "idle"
    /\ h' = [h EXCEPT ![r] = Arrive(@, b)]
    /\ UNCHANGED <<students, promotions, clock, lookup, answer, served, otherRouters>>

\* The continuation that skips an unknown username and goes on to the
\* next item.
AfterStudentQuerySkip(hr, rows) ==
    IF Cardinality(rows) = 0
    THEN LoopHead(hr, hr.idx + 1)
    ELSE [hr EXCEPT !.pc = "insert", !.studentId = FirstRow(rows).student_id]

\* The continuation without the return of line 80: the 404 is sent, the loop
\* goes on to rows[0].student_id of an empty result, and the TypeError ends
\* in the outer catch, which responds again.
AfterStudentQueryNoReturn(hr, rows) ==
    IF Cardinality(rows) = 0
    THEN Reply(Reply(hr, 404, <<>>), 500, <<>>)
    ELSE [hr EXCEPT !.pc = "insert", !.studentId = FirstRow(rows).student_id]

\* The handler resumes with the rows of the student query.
AfterStudentQuery(hr, rows) ==
    IF Cardinality(rows) = 0
    THEN Reply(hr, 404, <<>>)
    ELSE [hr EXCEPT !.pc = "insert", !.studentId = FirstRow(rows).student_id]

\* The handler resumes with the promotion_id the stored function returned.
AfterInsert(hr, promotion_id) ==
    LoopHead([hr EXCEPT !.promotionIds = Append(@, promotion_id)], hr.idx + 1)

\* The student query runs and the handler resumes with its rows.
Lookup(r) ==
    /\ h[r].pc = "lookup"
    /\ h' = [h EXCEPT ![r] =
                AfterStudentQuery(@, StudentQuery(students, h[r].body[h[r].idx].username))]
    /\ UNCHANGED <<students, promotions, clock, lookup, answer, served, otherRouters>>

\* The student query throws: the outer catch answers 500.
LookupError(r) ==
    /\ h[r].pc = "lookup"
    /\ h' = [h EXCEPT ![r] = Reply(@, 500, <<>>)]
    /\ UNCHANGED <<students, promotions, clock, lookup, answer, served, otherRouters>>

\* The stored function runs and returns the new id (it returns one whenever
\* it does not raise); the handler records it and goes on to the next item.
Insert(r) ==
    /\ h[r].pc = "insert"
    /\ \E now \in {clock, clock + 1} :
          LET out == insert_student_promotion(students, promotions, now, h[r].studentId,
                                              h[r].courseId, h[r].academicCourseYearId)
          IN  /\ students' = out.students
              /\ promotions' = out.promotions
              /\ clock' = now
              /\ h' = [h EXCEPT ![r] = AfterInsert(@, out.promotion_id)]
    /\ UNCHANGED <<lookup, answer, served, otherRouters>>

\* The stored function raises: the statement is rolled back and the inner
\* catch answers 500.
InsertError(r) ==
    /\ h[r].pc = "insert"
    /\ h' = [h EXCEPT ![r] = Reply(@, 500, <<>>)]
    /\ UNCHANGED <<students, promotions, clock, lookup, answer, served, otherRouters>>

\* ---------------------------------------------------------------- GET /promotions/:promotionId
GetPromotion(promotionId) ==
    /\ LET rows == get_promotion_by_id(promotions, promotionId)
       IN  lookup' = IF Cardinality(rows) = 0
                     THEN [promotionId |-> promotionId, status |-> 404, rows |-> {}]
                     ELSE [promotionId |-> promotionId, status |-> 200, rows |-> {FirstRow(rows)}]
    /\ UNCHANGED <<students, promotions, clock, h, answer, served, otherRouters>>

GetPromotionError(promotionId) ==
    /\ lookup' = [promotionId |-> promotionId, status |-> 500, rows |-> {}]
    /\ UNCHANGED <<students, promotions, clock, h, answer, served, otherRouters>>

PromotionIds == 1..(MaxBatch + 1)

\* The handler run to its response on a database whose calls all succeed.
RECURSIVE Run(_, _, _)
Run(hr, tbl, log) ==
    IF hr.pc = "lookup"
    THEN Run(AfterStudentQuery(hr, StudentQuery(tbl, hr.body[hr.idx].username)), tbl, log)
    ELSE IF hr.pc = "insert"
         THEN LET out == insert_student_promotion(tbl, log, 0, hr.studentId, hr.courseId,
                                                  hr.academicCourseYearId)
              IN  Run(AfterInsert(hr, out.promotion_id), out.students, out.promotions)
         ELSE [h |-> hr, students |-> tbl, promotions |-> log]

promoteBatch(b, tbl, log) == Run(Arrive(IdleHandler, b), tbl, log)

Idle == {r \in Handlers : h[r].pc = "idle"}

\* ---------------------------------------------------------------- specification
Next ==
    \/ \E r \in Idle, b \in Batches : Post(r, b)
    \/ \E r \in Handlers : Lookup(r)
    \/ \E r \in Handlers : LookupError(r)
    \/ \E r \in Handlers : Insert(r)
    \/ \E r \in Handlers : InsertError(r)

Spec == Init /\ [][Next]_vars

\* One-item batches together with the point lookup.
OneItemBatches == {b \in Batches : Len(b) = 1}

NextGet ==
    \/ \E r \in Idle, b \in OneItemBatches : Post(r, b)
    \/ \E r \in Handlers : Lookup(r)
    \/ \E r \in Handlers : LookupError(r)
    \/ \E r \in Handlers : Insert(r)
    \/ \E r \in Handlers : InsertError(r)
    \/ \E p \in PromotionIds : GetPromotion(p)
    \/ \E p \in PromotionIds : GetPromotionError(p)

SpecGet == Init /\ [][NextGet]_vars

TypeOK ==
    /\ \A r \in Handlers : h[r].pc \in {"off", "idle", "lookup", "insert", "done"}
    /\ Len(promotions) <= MaxBatch

\* ---------------------------------------------------------------- vocabulary of the properties
Known(username) == \E s \in DOMAIN students : students[s].username = username

StudentOf(username) == CHOOSE s \in DOMAIN students : students[s].username = username

\* A positive integer in decimal notation.
IsPositiveInteger(text) ==
    /\ Len(text) > 0
    /\ \A k \in 1..Len(text) : IsDigit(text[k])
    /\ text[1] # "0"

ValidItem(it) ==
    /\ it.username # ""
    /\ IsPositiveInteger(it.courseId)
    /\ IsPositiveInteger(it.academicCourseYearId)

ValidBatch(b) == Len(b) > 0 /\ \A k \in 1..Len(b) : ValidItem(b[k])

\* An item with a missing username, or a courseId or academicCourseYearId
\* that is missing or does not start with a number.
MalformedItem(it) ==
    \/ it.username = ""
    \/ isNaN(parseInt(it.courseId))
    \/ isNaN(parseInt(it.academicCourseYearId))

MalformedBatch(b) == Len(b) = 0 \/ \E k \in 1..Len(b) : MalformedItem(b[k])

Done(r) == h[r].pc = "done"

UnknownCount(b) == Cardinality({k \in 1..Len(b) : ~Known(b[k].username)})

\* Item k of the body has a PromotionRecord in the log.
Promoted(b, k) ==
    \E j \in 1..Len(promotions) :
        /\ promotions[j].student_id = StudentOf(b[k].username)
        /\ promotions[j].course_id = parseInt(b[k].courseId).val
        /\ promotions[j].to_year = parseInt(b[k].academicCourseYearId).val

\* ---------------------------------------------------------------- C1
\* C1: for every non-empty valid batch the result of POST /promotions holds
\* exactly one outcome per input item, in the order of the input items
\* (shown here for the requests whose database calls all succeeded).
C1_OneOutcomePerItem ==
    \A r \in Handlers :
        Done(r) /\ ValidBatch(h[r].body) /\ h[r].status # 500 =>
            /\ Len(h[r].reply) = Len(h[r].body)
            /\ \A k \in 1..Len(h[r].body) :
                  \A row \in get_promotion_by_id(promotions, h[r].reply[k]) :
                      students[row.student_id].username = h[r].body[k].username

\* ---------------------------------------------------------------- C2
\* C2: in a valid batch of n items of which k >= 1 name an unknown username,
\* the other n - k items are all promoted and reported as successes,
\* unless a database call failed.
C2_UnknownUsernameIsolated ==
    \A r \in Handlers :
        Done(r) /\ ValidBatch(h[r].body) /\ UnknownCount(h[r].body) >= 1 /\ h[r].status # 500 =>
            /\ \A k \in 1..Len(h[r].body) :
                  Known(h[r].body[k].username) => Promoted(h[r].body, k)
            /\ Len(h[r].reply) = Len(h[r].body) - UnknownCount(h[r].body)

\* ---------------------------------------------------------------- C3
\* C3: a malformed batch (empty, or with a malformed item at any position)
\* is answered 400 and leaves no PromotionRecord and no changed student
\* (shown here for the requests whose database calls all succeeded).
C3_MalformedBatchNoEffect ==
    \A r \in Handlers :
        Done(r) /\ MalformedBatch(h[r].body) /\ h[r].status # 500 =>
            /\ h[r].status = 400
            /\ promotions = <<>>
            /\ students = InitStudents

\* ---------------------------------------------------------------- C4
\* C4: the step that handles an item with an unknown username ends the item
\* as a failure, creates no PromotionRecord and changes no student.
C4_UnknownUsernameNoEffect ==
    [][\A r \in Handlers :
          (/\ h[r].pc = "lookup"
           /\ ~Known(h[r].body[h[r].idx].username)
           /\ h'[r] # h[r])
          => (/\ h'[r].pc = "done"
              /\ h'[r].status \in {404, 500}
              /\ h'[r].reply = <<>>
              /\ promotions' = promotions
              /\ students' = students)]_vars

\* An unknown username was answered 404 after an earlier item was promoted.
C4_Witness ==
    \E r \in Handlers :
        /\ Done(r)
        /\ h[r].status = 404
        /\ ~Known(h[r].body[h[r].idx].username)
        /\ h[r].idx > 1
        /\ Len(promotions) = h[r].idx - 1

\* ---------------------------------------------------------------- C5
Max(S) == CHOOSE x \in S : \A y \in S : y <= x

RecordsOf(s) == {j \in 1..Len(promotions) : promotions[j].student_id = s}

\* C5: per-item atomicity.  In every state a student's current year is the
\* target year of the student's latest PromotionRecord, and the year the
\* student started with when there is no record: no record exists without
\* its year update and no year update without its record, also after a
\* persistence failure.
C5_PerItemAtomic ==
    \A s \in DOMAIN students :
        IF RecordsOf(s) = {}
        THEN students[s].academic_course_year_id = InitStudents[s].academic_course_year_id
        ELSE students[s].academic_course_year_id = promotions[Max(RecordsOf(s))].to_year

\* The stored function raised on the second item after the first item, for
\* another student, was promoted.
C5_Witness ==
    \E r \in Handlers :
        /\ Done(r)
        /\ h[r].status = 500
        /\ h[r].idx = 2
        /\ h[r].body[1].username # h[r].body[2].username
        /\ Known(h[r].body[2].username)
        /\ h[r].studentId = StudentOf(h[r].body[2].username)
        /\ Len(promotions) = 1
        /\ students[promotions[1].student_id].academic_course_year_id = promotions[1].to_year
        /\ promotions[1].to_year # promotions[1].from_year

\* ---------------------------------------------------------------- C6
\* C6: in a valid batch the step that applies an item never ends the request
\* with a failure of the whole request (500), and when items remain the
\* handler goes on to the next item.
C6_NeverFailsAsAWhole ==
    [][\A r \in Handlers :
          (/\ h[r].pc = "insert"
           /\ ValidBatch(h[r].body)
           /\ h'[r] # h[r])
          => (/\ h'[r].status # 500
              /\ h[r].idx < Len(h[r].body) =>
                    h'[r].pc = "lookup" /\ h'[r].idx = h[r].idx + 1)]_vars

\* ---------------------------------------------------------------- C7
Orders(n) == {f \in [1..n -> 1..n] : \A i, j \in 1..n : f[i] = f[j] => i = j}

Permuted(b, f) == [k \in 1..Len(b) |-> b[f[k]]]

\* The records of a log without promotion_id and created_at.
UpToId(log) ==
    {[student_id |-> log[j].student_id, course_id |-> log[j].course_id,
      from_year |-> log[j].from_year, to_year |-> log[j].to_year] : j \in 1..Len(log)}

\* C7: when a valid batch has been processed without a database failure, the
\* store is the one that processing any permutation of the batch gives:
\* the same students and the same PromotionRecords up to id.
C7_OrderIndependent ==
    \A r \in Handlers :
        Done(r) /\ ValidBatch(h[r].body) /\ h[r].status # 500 =>
            \A f \in Orders(Len(h[r].body)) :
                LET out == promoteBatch(Permuted(h[r].body, f), InitStudents, <<>>)
                IN  /\ out.students = students
                    /\ UpToId(out.promotions) = UpToId(promotions)

\* ---------------------------------------------------------------- C8
\* C8: the response is 201 with the created promotionIds whenever at least
\* one item was promoted, and 400 when the batch is empty or malformed
\* (shown here for the requests whose database calls all succeeded).
C8_CreatedOrBadRequest ==
    \A r \in Handlers :
        Done(r) /\ h[r].status # 500 =>
            /\ Len(h[r].promotionIds) >= 1 /\ ~MalformedBatch(h[r].body) =>
                  h[r].status = 201 /\ h[r].reply = h[r].promotionIds
            /\ MalformedBatch(h[r].body) => h[r].status = 400

\* ---------------------------------------------------------------- C9
\* C9: every promotion a request created is reported in its response.
C9_ProgressReported ==
    \A r \in Handlers :
        Done(r) =>
            \A k \in 1..Len(h[r].promotionIds) :
                \E j \in 1..Len(h[r].reply) : h[r].reply[j] = h[r].promotionIds[k]

\* ---------------------------------------------------------------- C10
\* The decimal notation of a natural number.
RECURSIVE ToText(_)
ToText(n) == IF n < 10 THEN <<Digits[n + 1]>> ELSE Append(ToText(n \div 10), Digits[(n % 10) + 1])

\* C10: once a one-item batch {u, c, y} was answered 201 with id p, a GET
\* /promotions/p that the database serves answers 200 with a record whose
\* to_year is y and whose course_id is c.
C10_RoundTrip ==
    [][\A r \in Handlers :
          (/\ Done(r)
           /\ h[r].status = 201
           /\ Len(h[r].body) = 1
           /\ lookup' # lookup
           /\ lookup'.promotionId = h[r].reply[1]
           /\ lookup'.status # 500)
          => (/\ lookup'.status = 200
              /\ \A row \in lookup'.rows :
                    /\ row.to_year >= 0 /\ row.course_id >= 0
                    /\ ToText(row.to_year) = h[r].body[1].academicCourseYearId
                    /\ ToText(row.course_id) = h[r].body[1].courseId)]_vars

\* ---------------------------------------------------------------- requests in sequence
MaxSeqBatch == 2

SeqItems ==
    {Item("B1", <<"1">>, <<"2">>),
     Item("B1", <<"1">>, <<"3">>),
     Item("B2", <<"1">>, <<"2">>),
     Item("B9", <<"1">>, <<"2">>)}

SeqBatches == UNION {[1..n -> SeqItems] : n \in 0..MaxSeqBatch}

\* Both handlers are ready for a request.
InitTwo ==
    /\ InitOtherRouters
    /\ students = InitStudents
    /\ promotions = <<>>
    /\ clock = 0
    /\ h = [r \in Handlers |-> IdleHandler]
    /\ lookup = NoLookup
    /\ answer = NoAnswer
    /\ served = NoRequest

\* The handler that takes a request sent after every earlier request was
\* answered: the first idle one.
IdleInTurn ==
    IF \A r \in Handlers : h[r].pc \in {"idle", "done", "off"}
    THEN {r \in Idle : \A q \in Idle : r <= q}
    ELSE {}

NextSeq ==
    \/ \E r \in IdleInTurn, b \in SeqBatches : Post(r, b)
    \/ \E r \in Handlers : Lookup(r)
    \/ \E r \in Handlers : LookupError(r)
    \/ \E r \in Handlers : Insert(r)
    \/ \E r \in Handlers : InsertError(r)

SpecSeq == InitTwo /\ [][NextSeq]_vars

\* ---------------------------------------------------------------- C11
\* The items that were applied: item k of handler r got promotionIds[k].
Applied == {x \in Handlers \X (1..(MaxSeqBatch + 2)) : x[2] <= Len(h[x[1]].promotionIds)}

AppliedTo(s) == {x \in Applied : h[x[1]].body[x[2]].username = students[s].username}

IdOf(x) == h[x[1]].promotionIds[x[2]]

TargetOf(x) == parseInt(h[x[1]].body[x[2]].academicCourseYearId).val

\* The applied item of a non-empty set that got the largest promotion id.
LastOf(X) == CHOOSE x \in X : \A y \in X : IdOf(y) <= IdOf(x)

\* C11: when a student was promoted twice in sequence, by two batches or by
\* two items of one batch, the two promotions have distinct ids, the student
\* has exactly two PromotionRecords and the student's current year is the
\* target year of the second promotion.
C11_PromotedTwice ==
    \A s \in DOMAIN students :
        Cardinality(AppliedTo(s)) = 2 =>
            /\ Cardinality({IdOf(x) : x \in AppliedTo(s)}) = 2
            /\ \A x \in AppliedTo(s) :
                  \E row \in get_promotion_by_id(promotions, IdOf(x)) :
                      row.student_id = s /\ row.to_year = TargetOf(x)
            /\ Cardinality(RecordsOf(s)) = 2
            /\ students[s].academic_course_year_id = TargetOf(LastOf(AppliedTo(s)))

\* Two one-item batches promoted the same student to different years, one
\* after the other.
C11_Witness ==
    \E r1, r2 \in Handlers :
        /\ r1 # r2
        /\ Done(r1) /\ Done(r2)
        /\ h[r1].status = 201 /\ h[r2].status = 201
        /\ Len(h[r1].body) = 1 /\ Len(h[r2].body) = 1
        /\ h[r1].body[1].username = h[r2].body[1].username
        /\ h[r1].body[1].academicCourseYearId # h[r2].body[1].academicCourseYearId
        /\ h[r1].reply[1] < h[r2].reply[1]
        /\ students[StudentOf(h[r2].body[1].username)].academic_course_year_id
               = parseInt(h[r2].body[1].academicCourseYearId).val

\* ---------------------------------------------------------------- concurrent requests
ConcBatches == {b \in SeqBatches : Len(b) = 1}

\* Two requests in flight at once: each step of one handler may fall
\* between any two steps of the other.
NextConc ==
    \/ \E r \in Idle, b \in ConcBatches : Post(r, b)
    \/ \E r \in Handlers : Lookup(r)
    \/ \E r \in Handlers : LookupError(r)
    \/ \E r \in Handlers : Insert(r)
    \/ \E r \in Handlers : InsertError(r)

SpecConc == InitTwo /\ [][NextConc]_vars

\* ---------------------------------------------------------------- C12
\* C12: when two concurrent requests have both applied an item for the same
\* student, both PromotionRecords are in the log under their own ids, and
\* the student's current year is the target year of the request that was
\* applied last.
C12_ConcurrentBothRecorded ==
    \A r1, r2 \in Handlers :
        (/\ r1 # r2
         /\ Len(h[r1].promotionIds) = 1
         /\ Len(h[r2].promotionIds) = 1
         /\ h[r1].body[1].username = h[r2].body[1].username)
        => LET p1 == h[r1].promotionIds[1]
               p2 == h[r2].promotionIds[1]
               s == StudentOf(h[r1].body[1].username)
           IN  /\ p1 # p2
               /\ \E row \in get_promotion_by_id(promotions, p1) :
                     row.student_id = s /\ row.to_year = TargetOf(<<r1, 1>>)
               /\ \E row \in get_promotion_by_id(promotions, p2) :
                     row.student_id = s /\ row.to_year = TargetOf(<<r2, 1>>)
               /\ p1 > p2 => students[s].academic_course_year_id = TargetOf(<<r1, 1>>)

\* Both requests were answered 201 for the same student with different
\* target years, the second handler's promotion being applied first.
C12_Witness ==
    /\ Done(1) /\ Done(2)
    /\ h[1].status = 201 /\ h[2].status = 201
    /\ h[1].body[1].username = h[2].body[1].username
    /\ h[1].body[1].academicCourseYearId # h[2].body[1].academicCourseYearId
    /\ h[2].reply[1] < h[1].reply[1]
    /\ Len(promotions) = 2

\* ---------------------------------------------------------------- listing routes
\* The enumerations of a finite set of rows.
Enumerations(S) ==
    {q \in [1..Cardinality(S) -> S] : \A i, j \in 1..Cardinality(S) : q[i] = q[j] => i = j}

\* ORDER BY created_at ASC, the other direction.
OrderByCreatedAtAsc(S) ==
    {q \in Enumerations(S) :
        \A i, j \in 1..Cardinality(S) : i < j => q[i].created_at <= q[j].created_at}

\* ORDER BY created_at DESC: rows of equal created_at come in any order.
OrderByCreatedAtDesc(S) ==
    {q \in Enumerations(S) :
        \A i, j \in 1..Cardinality(S) : i < j => q[i].created_at >= q[j].created_at}

\* The view promotion_history: every PromotionRecord with the username of
\* its student.
promotion_history(tbl, log) ==
    {[promotion_id |-> log[j].promotion_id,
      student_id |-> log[j].student_id,
      username |-> tbl[log[j].student_id].username,
      course_id |-> log[j].course_id,
      from_year |-> log[j].from_year,
      to_year |-> log[j].to_year,
      created_at |-> log[j].created_at] : j \in 1..Len(log)}

\* SELECT * FROM get_promotions()
get_promotions(tbl, log) == promotion_history(tbl, log)

\* SELECT * FROM get_promotions_by_username($1)
get_promotions_by_username(tbl, log, username) ==
    {row \in promotion_history(tbl, log) : row.username = username}

\* rows.length === 0 answers 200 with an empty list.
ListAnswerNoCheck(route, key, rows) ==
    [route |-> route, key |-> key, status |-> 200, rows |-> rows]

\* rows.length === 0 answers 404, anything else 200 with the rows.
ListAnswer(route, key, rows) ==
    IF Len(rows) = 0
    THEN [route |-> route, key |-> key, status |-> 404, rows |-> <<>>]
    ELSE [route |-> route, key |-> key, status |-> 200, rows |-> rows]

ErrorAnswer(route, key) == [route |-> route, key |-> key, status |-> 500, rows |-> <<>>]

\* GET /promotion-history/:username
GetPromotionHistory(username) ==
    /\ \E rows \in OrderByCreatedAtDesc({row \in promotion_history(students, promotions) :
                                            row.username = username}) :
          answer' = ListAnswer("promotion-history", <<username>>, rows)
    /\ UNCHANGED <<students, promotions, clock, h, lookup, served, otherRouters>>

GetPromotionHistoryError(username) ==
    /\ answer' = ErrorAnswer("promotion-history", <<username>>)
    /\ UNCHANGED <<students, promotions, clock, h, lookup, served, otherRouters>>

\* GET /getpromotions
GetPromotions ==
    /\ \E rows \in Enumerations(get_promotions(students, promotions)) :
          answer' = ListAnswer("getpromotions", <<>>, rows)
    /\ UNCHANGED <<students, promotions, clock, h, lookup, served, otherRouters>>

GetPromotionsError ==
    /\ answer' = ErrorAnswer("getpromotions", <<>>)
    /\ UNCHANGED <<students, promotions, clock, h, lookup, served, otherRouters>>

\* GET /promotions/username/:username
GetPromotionsByUsername(username) ==
    /\ \E rows \in Enumerations(get_promotions_by_username(students, promotions, username)) :
          answer' = ListAnswer("promotions/username", <<username>>, rows)
    /\ UNCHANGED <<students, promotions, clock, h, lookup, served, otherRouters>>

GetPromotionsByUsernameError(username) ==
    /\ answer' = ErrorAnswer("promotions/username", <<username>>)
    /\ UNCHANGED <<students, promotions, clock, h, lookup, served, otherRouters>>

\* GET /getstudentsbycourseandyear/:courseId/:yearId
GetStudentsByCourseAndYear(courseId, yearId) ==
    /\ LET parsedCourseId == parseInt(courseId)
           parsedYearId == parseInt(yearId)
       IN  IF isNaN(parsedCourseId) \/ isNaN(parsedYearId)
           THEN answer' = [route |-> "getstudentsbycourseandyear", key |-> <<courseId, yearId>>,
                           status |-> 400, rows |-> <<>>]
           ELSE \E rows \in Enumerations({students[s] : s \in
                                {x \in DOMAIN students :
                                    /\ students[x].course_id = parsedCourseId.val
                                    /\ students[x].academic_course_year_id = parsedYearId.val}}) :
                    answer' = ListAnswer("getstudentsbycourseandyear", <<courseId, yearId>>, rows)
    /\ UNCHANGED <<students, promotions, clock, h, lookup, served, otherRouters>>

GetStudentsByCourseAndYearError(courseId, yearId) ==
    /\ answer' = ErrorAnswer("getstudentsbycourseandyear", <<courseId, yearId>>)
    /\ UNCHANGED <<students, promotions, clock, h, lookup, served, otherRouters>>

\* ---------------------------------------------------------------- the promotion router
ApiBatches ==
    {<<Item("B1", <<"1">>, <<"2">>)>>,
     <<Item("B1", <<"1">>, <<"2">>), Item("B1", <<"1">>, <<"3">>)>>,
     <<Item("B1", <<"1">>, <<"2">>), Item("B2", <<"1">>, <<"2">>)>>,
     <<Item("B2", <<"1">>, <<"2">>), Item("B1", <<"1">>, <<"2">>), Item("B1", <<"1">>, <<"3">>)>>,
     <<Item("B9", <<"1">>, <<"2">>)>>}

PathUsernames == {"B1", "B2", "B9"}

PathCourses == {<<"1">>, <<"a">>}

PathYears == {<<"1">>, <<"2">>}

RecordIds == {1, 2, 3}

NextApi ==
    \/ \E r \in Idle, b \in ApiBatches : Post(r, b)
    \/ \E r \in Handlers : Lookup(r)
    \/ \E r \in Handlers : LookupError(r)
    \/ \E r \in Handlers : Insert(r)
    \/ \E r \in Handlers : InsertError(r)
    \/ \E p \in RecordIds : GetPromotion(p)
    \/ \E p \in RecordIds : GetPromotionError(p)
    \/ \E u \in PathUsernames : GetPromotionHistory(u)
    \/ \E u \in PathUsernames : GetPromotionHistoryError(u)
    \/ GetPromotions
    \/ GetPromotionsError
    \/ \E u \in PathUsernames : GetPromotionsByUsername(u)
    \/ \E u \in PathUsernames : GetPromotionsByUsernameError(u)
    \/ \E c \in PathCourses, y \in PathYears : GetStudentsByCourseAndYear(c, y)
    \/ \E c \in PathCourses, y \in PathYears : GetStudentsByCourseAndYearError(c, y)

SpecApi == Init /\ [][NextApi]_vars

\* ---------------------------------------------------------------- C13
\* C13: PromotionRecords are append-only and immutable.  Over every step of
\* every handler of the promotion router, each record of the log is still in
\* the log with the same fields, and no other row carries its promotion_id.
C13_RecordsImmutable ==
    [][\A j \in 1..Len(promotions) :
          /\ \E k \in 1..Len(promotions') : promotions'[k] = promotions[j]
          /\ \A k \in 1..Len(promotions') :
                promotions'[k].promotion_id = promotions[j].promotion_id
                    => promotions'[k] = promotions[j]]_vars

\* A student has two records, written one after the other, and both the
\* point lookup and a listing route have been answered from them.
C13_Witness ==
    /\ Len(promotions) = 2
    /\ promotions[1].student_id = promotions[2].student_id
    /\ lookup.status = 200
    /\ lookup.rows = {promotions[1]}
    /\ answer.status = 200
    /\ Len(answer.rows) = 2

\* ---------------------------------------------------------------- C14
\* The PromotionRecords of the student called username, in the log.
HistoryOf(log, tbl, username) ==
    {j \in 1..Len(log) : tbl[log[j].student_id].username = username}

\* Row and log record carry the same promotion.
SameRecord(row, rec) ==
    /\ row.promotion_id = rec.promotion_id
    /\ row.student_id = rec.student_id
    /\ row.course_id = rec.course_id
    /\ row.from_year = rec.from_year
    /\ row.to_year = rec.to_year
    /\ row.created_at = rec.created_at

\* GET /promotion-history/:username has just been answered without a
\* server error.
HistoryAnswered ==
    /\ answer' # answer
    /\ answer'.route = "promotion-history"
    /\ answer'.status # 500

\* C14: getPromotionHistory(username) returns all PromotionRecords of that
\* student, and only those, ordered by created_at descending: every record
\* of the student is one row of the answer, every row is a record of the
\* student, no row comes twice, and no row is older than a row after it.
C14_HistoryCompleteAndOrdered ==
    [][HistoryAnswered =>
          LET rows == answer'.rows
              mine == HistoryOf(promotions', students', answer'.key[1])
          IN  /\ \A j \in mine : \E i \in 1..Len(rows) : SameRecord(rows[i], promotions'[j])
              /\ \A i \in 1..Len(rows) :
                    /\ rows[i].username = answer'.key[1]
                    /\ \E j \in mine : SameRecord(rows[i], promotions'[j])
              /\ Len(rows) = Cardinality(mine)
              /\ \A i, k \in 1..Len(rows) :
                    i < k => rows[i].created_at >= rows[k].created_at]_vars

\* A history of two records written at different times has been returned
\* while another student has a record too.
C14_Witness ==
    /\ answer.route = "promotion-history"
    /\ answer.status = 200
    /\ Len(answer.rows) = 2
    /\ answer.rows[1].created_at > answer.rows[2].created_at
    /\ Len(promotions) = 3

\* ---------------------------------------------------------------- C15
\* C15: getPromotionHistory for an existing student who has never been
\* promoted returns an empty sequence and not an error; not-found is
\* returned only when the username does not resolve to any student.
C15_NotFoundOnlyForUnknownUsername ==
    answer.route = "promotion-history" /\ answer.status = 404
        => ~Known(answer.key[1])

\* ---------------------------------------------------------------- C16
\* C16: GET /promotion-history/{username} responds 200 with the history
\* exactly when at least one promotion record exists for the username, and
\* 404 whenever the history is empty, for an unknown username and for a
\* known student without promotions alike.
C16_OkIffHistoryNonEmpty ==
    [][HistoryAnswered =>
          LET mine == HistoryOf(promotions', students', answer'.key[1])
          IN  /\ answer'.status = 200 <=> mine # {}
              /\ answer'.status = 404 <=> mine = {}
              /\ answer'.status = 200 => Len(answer'.rows) >= 1]_vars

\* The same router has answered 404 for a known student without promotions
\* while the log holds a record of another student.
C16_Witness ==
    /\ answer.route = "promotion-history"
    /\ answer.status = 404
    /\ Known(answer.key[1])
    /\ Len(promotions) = 1

\* ---------------------------------------------------------------- C17
\* C17: getPromotionById(promotion_id) returns the record with that id when
\* one exists and answers 404 when none exists; it never returns a record
\* with a different id.  Stated over every lookup answered without a server
\* error.
C17_LookupById ==
    [][lookup' # lookup /\ lookup'.status # 500 =>
          LET found == {j \in 1..Len(promotions') :
                            promotions'[j].promotion_id = lookup'.promotionId}
          IN  /\ lookup'.status = 404 <=> found = {}
              /\ lookup'.status = 200 <=> found # {}
              /\ lookup'.status = 200 =>
                    \E j \in found : lookup'.rows = {promotions'[j]}
              /\ \A row \in lookup'.rows : row.promotion_id = lookup'.promotionId]_vars

\* The second of three records has been looked up and returned.
C17_Witness ==
    /\ Len(promotions) = 3
    /\ lookup.status = 200
    /\ lookup.promotionId = 2
    /\ lookup.rows = {promotions[2]}

\* ---------------------------------------------------------------- C18
\* C18: promoteBatch never changes any student's student_id, username,
\* full_name, course_id or enrollment_year, and changes
\* academic_course_year_id only for the student named by the item that has
\* just been promoted.  Stated over every step of the handler.
C18_DirectoryReadOnlyButYear ==
    [][/\ DOMAIN students' = DOMAIN students
       /\ \A s \in DOMAIN students :
             /\ students'[s].student_id = students[s].student_id
             /\ students'[s].username = students[s].username
             /\ students'[s].full_name = students[s].full_name
             /\ students'[s].course_id = students[s].course_id
             /\ students'[s].enrollment_year = students[s].enrollment_year
             /\ students'[s].academic_course_year_id # students[s].academic_course_year_id
                   => \E r \in Handlers :
                         /\ h[r].pc = "insert"
                         /\ Len(h'[r].promotionIds) = Len(h[r].promotionIds) + 1
                         /\ h[r].body[h[r].idx].username = students[s].username]_vars

\* A batch naming B2 only has been answered 201: B2 has moved to another
\* year and B1 is as it was.
C18_Witness ==
    \E r \in Handlers :
        /\ Done(r)
        /\ h[r].status = 201
        /\ \A k \in 1..Len(h[r].body) : h[r].body[k].username = "B2"
        /\ students[2].academic_course_year_id # InitStudents[2].academic_course_year_id
        /\ students[1] = InitStudents[1]

\* ---------------------------------------------------------------- C19
\* C19: promoteBatch accepts an item only if its username is a non-empty
\* string and its course_id and target_year are positive integers: an item
\* the handler goes on to look up or to insert is a valid item.
C19_OnlyValidItemsAccepted ==
    \A r \in Handlers :
        h[r].pc \in {"lookup", "insert"} => ValidItem(h[r].body[h[r].idx])

\* ---------------------------------------------------------------- the subjects router
\* GET routes of src/routes/subjects.routes.js, mounted on /api.  A path is
\* the sequence of its segments after /api, each segment the text Express
\* hands to the handler in req.params.
MaxPath == 5

SegGetSubjects == <<"g", "e", "t", "s", "u", "b", "j", "e", "c", "t", "s">>

SegGetSubject == <<"g", "e", "t", "s", "u", "b", "j", "e", "c", "t">>

SegGetSemesters == <<"g", "e", "t", "s", "e", "m", "e", "s", "t", "e", "r", "s">>

SegUser == <<"u", "s", "e", "r">>

PathHeads == {SegGetSubjects, SegGetSubject, SegGetSemesters}

\* user, a username, two numbers and %20.
PathSegments == {SegUser, <<"B", "1">>, <<"1">>, <<"0">>, <<" ">>}

Paths ==
    UNION {{p \in [1..n -> PathHeads \cup PathSegments] :
                /\ p[1] \in PathHeads
                /\ \A k \in 2..n : p[k] \in PathSegments} : n \in 1..MaxPath}

\* A :name place of a route pattern; it matches any segment.
Param == <<>>

\* The GET routes in the order router.get registers them.
GetRoutes ==
    <<[route |-> "/getsubjects/:courseId/:semesterId",
       pattern |-> <<SegGetSubjects, Param, Param>>],
      [route |-> "/getsubject/:subject_id",
       pattern |-> <<SegGetSubject, Param>>],
      [route |-> "/getsubjects/:courseId",
       pattern |-> <<SegGetSubjects, Param>>],
      [route |-> "/getsemesters",
       pattern |-> <<SegGetSemesters>>],
      [route |-> "/getsubjects/:course_id/:semester_id",
       pattern |-> <<SegGetSubjects, Param, Param>>],
      [route |-> "/getsubjects/user/:username",
       pattern |-> <<SegGetSubjects, SegUser, Param>>],
      [route |-> "/getsubjects/user/:username/:courseId",
       pattern |-> <<SegGetSubjects, SegUser, Param, Param>>],
      [route |-> "/getsubjects/user/:username/:courseId/:semesterId",
       pattern |-> <<SegGetSubjects, SegUser, Param, Param, Param>>]>>

Matches(pattern, path) ==
    /\ Len(pattern) = Len(path)
    /\ \A k \in 1..Len(pattern) : pattern[k] = Param \/ pattern[k] = path[k]

\* The router hands the request to the first registered route whose
\* pattern matches; 0 when none does.
Dispatch(path) ==
    LET matching == {k \in 1..Len(GetRoutes) : Matches(GetRoutes[k].pattern, path)}
    IN  IF matching = {} THEN 0
        ELSE CHOOSE k \in matching : \A m \in matching : k <= m

\* What the database does with the handler's query.
QueryOutcomes == {"rows", "empty", "error"}

\* The status after the query: the catch answers 500, an empty result
\* answers whenEmpty, rows answer 200.
AfterQuery(out, whenEmpty) ==
    IF out = "error" THEN 500 ELSE IF out = "empty" THEN whenEmpty ELSE 200

\* text.trim() === ''
Blank(text) == SkipWhite(text) = <<>>

\* GET /getsubjects/:courseId/:semesterId
GetSubjectsByCourseAndSemester(path, out) ==
    IF isNaN(parseInt(path[2])) \/ isNaN(parseInt(path[3]))
    THEN 400
    ELSE AfterQuery(out, 404)

\* GET /getsubject/:subject_id
GetSubjectById(path, out) ==
    LET subject_id == parseInt(path[2])
    IN  IF isNaN(subject_id) \/ subject_id.val <= 0
        THEN 400
        ELSE AfterQuery(out, 404)

\* GET /getsubjects/:courseId
GetSubjectsByCourse(path, out) ==
    IF isNaN(parseInt(path[2])) THEN 400 ELSE AfterQuery(out, 200)

\* GET /getsemesters
GetSemesters(path, out) == AfterQuery(out, 404)

\* GET /getsubjects/:course_id/:semester_id
GetSubjectsByCourseIdAndSemesterId(path, out) ==
    IF isNaN(parseInt(path[2])) \/ isNaN(parseInt(path[3]))
    THEN 400
    ELSE AfterQuery(out, 200)

\* GET /getsubjects/user/:username
GetSubjectsByUsername(path, out) ==
    IF Blank(path[3]) THEN 400 ELSE AfterQuery(out, 404)

\* GET /getsubjects/user/:username/:courseId
GetSubjectsByUsernameAndCourse(path, out) ==
    IF isNaN(parseInt(path[4])) THEN 400 ELSE AfterQuery(out, 404)

\* GET /getsubjects/user/:username/:courseId/:semesterId
GetSubjectsByUsernameCourseAndSemester(path, out) ==
    IF Blank(path[3]) \/ isNaN(parseInt(path[4])) \/ isNaN(parseInt(path[5]))
    THEN 400
    ELSE AfterQuery(out, 404)

\* The handler of route k run on the request.
Handle(k, path, out) ==
    CASE k = 1 -> GetSubjectsByCourseAndSemester(path, out)
      [] k = 2 -> GetSubjectById(path, out)
      [] k = 3 -> GetSubjectsByCourse(path, out)
      [] k = 4 -> GetSemesters(path, out)
      [] k = 5 -> GetSubjectsByCourseIdAndSemesterId(path, out)
      [] k = 6 -> GetSubjectsByUsername(path, out)
      [] k = 7 -> GetSubjectsByUsernameAndCourse(path, out)
      [] k = 8 -> GetSubjectsByUsernameCourseAndSemester(path, out)

\* A GET request is dispatched and answered; a path no route matches gets
\* the 404 of Express.  The router keeps nothing between requests, so the
\* model follows them one at a time.
Get(path, out) ==
    /\ served = NoRequest
    /\ LET k == Dispatch(path)
       IN  served' = IF k = 0
                     THEN [path |-> path, route |-> "", status |-> 404]
                     ELSE [path |-> path, route |-> GetRoutes[k].route,
                           status |-> Handle(k, path, out)]
    /\ UNCHANGED <<students, promotions, clock, h, lookup, answer, otherRouters>>

\* The response has been sent: the request is over.
Finish ==
    /\ served # NoRequest
    /\ served' = NoRequest
    /\ UNCHANGED <<students, promotions, clock, h, lookup, answer, otherRouters>>

NextRoutes ==
    \/ \E path \in Paths, out \in QueryOutcomes : Get(path, out)
    \/ Finish

SpecRoutes == Init /\ [][NextRoutes]_vars

\* ---------------------------------------------------------------- C20
\* C20: GET /api/getsubjects/user/{username} with a non-empty username is
\* handled by the by-username handler, which answers 200 when there are
\* subjects and 404 when there are none (500 when the database fails); it
\* is never answered by the handler of another route.
C20_ServedByUsernameHandler ==
    (/\ Len(served.path) = 3
     /\ served.path[1] = SegGetSubjects
     /\ served.path[2] = SegUser
     /\ ~Blank(served.path[3]))
        => /\ served.route = "/getsubjects/user/:username"
           /\ served.status \in {200, 404, 500}

\* ---------------------------------------------------------------- the results router
\* POST /addstudentresult of src/routes/results.routes.js.  The handler
\* makes one call, SELECT insert_student_result(...); the function looks for
\* the result and inserts it when it is not there, and other calls can run
\* between the two statements.  The table refuses a second row of the same
\* (username, course, semester, subject) with error 23505, the error the
\* handler's catch tells apart.
Result(u, c, m, j, credits, st) ==
    [username |-> u, courseId |-> c, semesterId |-> m, subjectId |-> j,
     studentCredits |-> credits, resultStatus |-> st]

\* Two requests for the same result, one for another subject, and two
\* bodies with a field missing (0 and "" are what ! takes for missing).
ResultBodies ==
    {Result("B1", 1, 1, 1, 4, "Pass"),
     Result("B1", 1, 1, 1, 3, "Fail"),
     Result("B1", 1, 1, 2, 4, "Pass"),
     Result("B1", 1, 1, 1, 0, "Pass"),
     Result("", 1, 1, 1, 4, "Pass")}

ResultKey(b) == <<b.username, b.courseId, b.semesterId, b.subjectId>>

IdleRequest == [OffRequest EXCEPT !.pc = "idle"]

\* res.status(st).json(...), with what the database call came to.
Respond(req, st, outcome) == [req EXCEPT !.pc = "done", !.status = st, !.outcome = outcome]

\* The function's look for the result.
result_exists(tbl, b) == \E j \in 1..Len(tbl) : ResultKey(tbl[j]) = ResultKey(b)

\* The insert on a table without the unique constraint.
insert_student_result_NoUnique(tbl, b) ==
    [student_results |-> Append(tbl, b), error |-> ""]

\* The function's INSERT: the unique constraint raises 23505 when the row
\* is there by now.
insert_student_result(tbl, b) ==
    IF result_exists(tbl, b)
    THEN [student_results |-> tbl, error |-> "23505"]
    ELSE [student_results |-> Append(tbl, b), error |-> ""]

\* The request arrives: a missing field answers 400, anything else calls
\* the function.
PostResult(r, b) ==
    /\ rh[r].pc = "idle"
    /\ rh' = [rh EXCEPT ![r] =
                IF \/ b.username = "" \/ b.courseId = 0 \/ b.semesterId = 0
                   \/ b.subjectId = 0 \/ b.studentCredits = 0 \/ b.resultStatus = ""
                THEN Respond([@ EXCEPT !.body = b], 400, "")
                ELSE [@ EXCEPT !.pc = "check", !.body = b]]
    /\ UNCHANGED <<students, promotions, clock, h, lookup, answer, served,
                   student_results, login, dh, payments, ph, millis>>

\* The function finds the result: it returns 'Student result already
\* exists' and the handler answers 400.  Otherwise it goes on to insert.
ResultCheck(r) ==
    /\ rh[r].pc = "check"
    /\ rh' = [rh EXCEPT ![r] =
                IF result_exists(student_results, rh[r].body)
                THEN Respond(@, 400, "exists")
                ELSE [@ EXCEPT !.pc = "insert"]]
    /\ UNCHANGED <<students, promotions, clock, h, lookup, answer, served,
                   student_results, login, dh, payments, ph, millis>>

\* The function inserts: 23505 is caught and answered 400, an inserted row
\* is answered 201.
ResultInsert(r) ==
    /\ rh[r].pc = "insert"
    /\ LET out == insert_student_result(student_results, rh[r].body)
       IN  /\ student_results' = out.student_results
           /\ rh' = [rh EXCEPT ![r] =
                       IF out.error = "23505"
                       THEN Respond(@, 400, "23505")
                       ELSE Respond(@, 201, "inserted")]
    /\ UNCHANGED <<students, promotions, clock, h, lookup, answer, served,
                   login, dh, payments, ph, millis>>

\* The call throws another error: the statement is rolled back and the
\* catch answers 500.
ResultError(r) ==
    /\ rh[r].pc \in {"check", "insert"}
    /\ rh' = [rh EXCEPT ![r] = Respond(@, 500, "error")]
    /\ UNCHANGED <<students, promotions, clock, h, lookup, answer, served,
                   student_results, login, dh, payments, ph, millis>>

InitResults ==
    /\ students = InitStudents
    /\ promotions = <<>>
    /\ clock = 0
    /\ h = [r \in Handlers |-> OffHandler]
    /\ lookup = NoLookup
    /\ answer = NoAnswer
    /\ served = NoRequest
    /\ student_results = <<>>
    /\ rh = [r \in Handlers |-> IdleRequest]
    /\ login = {InitStudents[s].username : s \in StudentIds}
    /\ dh = [r \in Handlers |-> OffRequest]
    /\ payments = <<>>
    /\ ph = [r \in Handlers |-> OffRequest]
    /\ millis = 0

NextResults ==
    \/ \E r \in Handlers, b \in ResultBodies : PostResult(r, b)
    \/ \E r \in Handlers : ResultCheck(r)
    \/ \E r \in Handlers : ResultInsert(r)
    \/ \E r \in Handlers : ResultError(r)

SpecResults == InitResults /\ [][NextResults]_vars

DeleteStudent(r, username) ==
    /\ dh[r].pc = "idle"
    /\ dh' = [dh EXCEPT ![r] =
                IF username = ""
                THEN Respond([@ EXCEPT !.body = username], 400, "")
                ELSE [@ EXCEPT !.pc = "students", !.body = username]]
    /\ UNCHANGED <<students, promotions, clock, h, lookup, answer, served,
                   student_results, rh, login, payments, ph, millis>>

\* DELETE FROM students WHERE username = $1.  The schema is not in the
\* source: the delete may or may not cascade to the login table.
DeleteFromStudents(r) ==
    /\ dh[r].pc = "students"
    /\ students' = [s \in {x \in DOMAIN students : students[x].username # dh[r].body}
                       |-> students[s]]
    /\ \E cascade \in BOOLEAN :
          login' = IF cascade THEN login \ {dh[r].body} ELSE login
    /\ dh' = [dh EXCEPT ![r].pc = "login"]
    /\ UNCHANGED <<promotions, clock, h, lookup, answer, served,
                   student_results, rh, payments, ph, millis>>

\* The first query throws: nothing is deleted and the catch answers 500.
DeleteFromStudentsError(r) ==
    /\ dh[r].pc = "students"
    /\ dh' = [dh EXCEPT ![r] = Respond(@, 500, "error")]
    /\ UNCHANGED <<students, promotions, clock, h, lookup, answer, served,
                   student_results, rh, login, payments, ph, millis>>

\* DELETE FROM login WHERE username = $1, then 200.
DeleteFromLogin(r) ==
    /\ dh[r].pc = "login"
    /\ login' = login \ {dh[r].body}
    /\ dh' = [dh EXCEPT ![r] = Respond(@, 200, "deleted")]
    /\ UNCHANGED <<students, promotions, clock, h, lookup, answer, served,
                   student_results, rh, payments, ph, millis>>

\* The second query throws: the first delete stays committed and the catch
\* answers 500.
DeleteFromLoginError(r) ==
    /\ dh[r].pc = "login"
    /\ dh' = [dh EXCEPT ![r] = Respond(@, 500, "error")]
    /\ UNCHANGED <<students, promotions, clock, h, lookup, answer, served,
                   student_results, rh, login, payments, ph, millis>>

InitDelete ==
    /\ students = InitStudents
    /\ promotions = <<>>
    /\ clock = 0
    /\ h = [r \in Handlers |-> OffHandler]
    /\ lookup = NoLookup
    /\ answer = NoAnswer
    /\ served = NoRequest
    /\ student_results = <<>>
    /\ rh = [r \in Handlers |-> OffRequest]
    /\ login = {InitStudents[s].username : s \in StudentIds}
    /\ dh = [r \in Handlers |-> IdleRequest]
    /\ payments = <<>>
    /\ ph = [r \in Handlers |-> OffRequest]
    /\ millis = 0

NextDelete ==
    \/ \E r \in Handlers, u \in PathUsernames : DeleteStudent(r, u)
    \/ \E r \in Handlers : DeleteFromStudents(r)
    \/ \E r \in Handlers : DeleteFromStudentsError(r)
    \/ \E r \in Handlers : DeleteFromLogin(r)
    \/ \E r \in Handlers : DeleteFromLoginError(r)

SpecDelete == InitDelete /\ [][NextDelete]_vars

\* ---------------------------------------------------------------- C22
\* C22: after a deletestudent request has finished with 200 or 500, either
\* both the students row and the login row of that username are gone or
\* both are still present.
C22_DeletedAsOneUnit ==
    \A r \in Handlers :
        dh[r].pc = "done" /\ dh[r].status \in {200, 500} =>
            (Known(dh[r].body) <=> dh[r].body \in login)

\* ---------------------------------------------------------------- the fee ledger router
\* POST /payments of src/routes/feeledger.routes.js.  The transaction id is
\* the text TXN followed by Date.now(); the record keeps the number.
MaxMillis == 2

Payment(ledger, u, amount) == [fee_ledger_id |-> ledger, username |-> u, amount |-> amount]

\* Two payments and a body without amount (0 is what ! takes for missing).
PaymentBodies ==
    {Payment(1, "B1", 500),
     Payment(2, "B2", 500),
     Payment(1, "B1", 0)}

\* The request arrives: a missing field answers 400; otherwise the handler
\* takes its transaction id from the clock and sends the INSERT.
PostPayment(r, b) ==
    /\ ph[r].pc = "idle"
    /\ ph' = [ph EXCEPT ![r] =
                IF b.fee_ledger_id = 0 \/ b.username = "" \/ b.amount = 0
                THEN Respond([@ EXCEPT !.body = b], 400, "")
                ELSE [@ EXCEPT !.pc = "insert", !.body = b, !.outcome = millis]]
    /\ UNCHANGED <<students, promotions, clock, h, lookup, answer, served,
                   student_results, rh, login, dh, payments, millis>>

\* INSERT INTO payments ... RETURNING *, then 201 with the transaction id.
InsertPayment(r) ==
    /\ ph[r].pc = "insert"
    /\ payments' = Append(payments,
                          [payment_id |-> Len(payments) + 1,
                           fee_ledger_id |-> ph[r].body.fee_ledger_id,
                           username |-> ph[r].body.username,
                           transaction_id |-> ph[r].outcome,
                           payment_status |-> "Completed",
                           amount_paid |-> ph[r].body.amount])
    /\ ph' = [ph EXCEPT ![r] = Respond(@, 201, ph[r].outcome)]
    /\ UNCHANGED <<students, promotions, clock, h, lookup, answer, served,
                   student_results, rh, login, dh, millis>>

\* The INSERT throws: nothing is stored and the catch answers 500.
InsertPaymentError(r) ==
    /\ ph[r].pc = "insert"
    /\ ph' = [ph EXCEPT ![r] = Respond(@, 500, ph[r].outcome)]
    /\ UNCHANGED <<students, promotions, clock, h, lookup, answer, served,
                   student_results, rh, login, dh, payments, millis>>

\* A millisecond passes.
Tick ==
    /\ millis < MaxMillis
    /\ millis' = millis + 1
    /\ UNCHANGED <<students, promotions, clock, h, lookup, answer, served,
                   student_results, rh, login, dh, payments, ph>>

InitPayments ==
    /\ students = InitStudents
    /\ promotions = <<>>
    /\ clock = 0
    /\ h = [r \in Handlers |-> OffHandler]
    /\ lookup = NoLookup
    /\ answer = NoAnswer
    /\ served = NoRequest
    /\ student_results = <<>>
    /\ rh = [r \in Handlers |-> OffRequest]
    /\ login = {InitStudents[s].username : s \in StudentIds}
    /\ dh = [r \in Handlers |-> OffRequest]
    /\ payments = <<>>
    /\ ph = [r \in Handlers |-> IdleRequest]
    /\ millis = 0

NextPayments ==
    \/ \E r \in Handlers, b \in PaymentBodies : PostPayment(r, b)
    \/ \E r \in Handlers : InsertPayment(r)
    \/ \E r \in Handlers : InsertPaymentError(r)
    \/ Tick

SpecPayments == InitPayments /\ [][NextPayments]_vars

\* ---------------------------------------------------------------- C23
\* C23: no two payment records share a transaction_id, requests handled
\* within the same clock millisecond included.
C23_UniqueTransactionId ==
    \A i, j \in 1..Len(payments) :
        payments[i].transaction_id = payments[j].transaction_id => i = j

\* ---------------------------------------------------------------- C24
\* The items with an unknown username that the loop gets to: every item up
\* to them passes the validation of the loop.
UnresolvedReached(b) ==
    {k \in 1..Len(b) :
        /\ ~Known(b[k].username)
        /\ \A j \in 1..k : ~MalformedItem(b[j])}

Min(S) == CHOOSE x \in S : \A y \in S : x <= y

\* C24: POST /promotions responds 404 when a referenced username resolves
\* to no student, and the batch is aborted at the first unresolved username:
\* the request stops at that item, with the items before it promoted and no
\* item after it looked up or promoted (database failures aside).
C24_AbortAtFirstUnresolved ==
    \A r \in Handlers :
        Done(r) /\ h[r].status # 500 =>
            /\ h[r].status = 404 <=> UnresolvedReached(h[r].body) # {}
            /\ h[r].status = 404 =>
                  /\ h[r].idx = Min(UnresolvedReached(h[r].body))
                  /\ Len(h[r].promotionIds) = h[r].idx - 1
                  /\ Len(promotions) = h[r].idx - 1
                  /\ \A j \in 1..Len(promotions) :
                        \E k \in 1..(h[r].idx - 1) :
                            students[promotions[j].student_id].username = h[r].body[k].username

\* A batch of three items was answered 404 at its second item: the first
\* item is promoted, the third, a valid item for a known student, is not.
C24_Witness ==
    \E r \in Handlers :
        /\ Done(r)
        /\ h[r].status = 404
        /\ Len(h[r].body) = 3
        /\ h[r].idx = 2
        /\ Known(h[r].body[3].username)
        /\ ValidItem(h[r].body[3])
        /\ h[r].body[3].username # h[r].body[1].username
        /\ Len(promotions) = 1

\* ---------------------------------------------------------------- C25
\* The record before record j among the records of the same student, 0 when
\* j is the student's first.
PreviousRecord(j) ==
    LET earlier == {i \in 1..(j - 1) : promotions[i].student_id = promotions[j].student_id}
    IN  IF earlier = {} THEN 0 ELSE Max(earlier)

\* C25: the step that applies an item creates a PromotionRecord whose
\* from_year is the student's academic_course_year_id just before the step
\* and whose to_year is the target year the handler asked for, and sets the
\* student's academic_course_year_id to that target; and in every state each
\* record's from_year is the to_year of the same student's previous record
\* (the year the student started with for the first record).
C25_FromYearChains ==
    /\ [][\A r \in Handlers :
             h[r].pc = "insert" /\ Len(h'[r].promotionIds) = Len(h[r].promotionIds) + 1 =>
                 LET rec == promotions'[Len(promotions')]
                     it == h[r].body[h[r].idx]
                 IN  /\ Len(promotions') = Len(promotions) + 1
                     /\ rec.student_id = StudentOf(it.username)
                     /\ rec.from_year = students[rec.student_id].academic_course_year_id
                     /\ rec.to_year = parseInt(it.academicCourseYearId).val
                     /\ students'[rec.student_id].academic_course_year_id = rec.to_year]_vars
    /\ [](\A j \in 1..Len(promotions) :
             promotions[j].from_year =
                 IF PreviousRecord(j) = 0
                 THEN InitStudents[promotions[j].student_id].academic_course_year_id
                 ELSE promotions[PreviousRecord(j)].to_year)

\* One student was promoted twice, with a promotion of another student in
\* between: the second record starts from the year the first one led to.
C25_Witness ==
    /\ Len(promotions) = 3
    /\ promotions[1].student_id = promotions[3].student_id
    /\ promotions[2].student_id # promotions[1].student_id
    /\ promotions[3].from_year = promotions[1].to_year
    /\ promotions[3].to_year # promotions[3].from_year
    /\ promotions[1].from_year # promotions[1].to_year

\* ---------------------------------------------------------------- the stored function among concurrent calls
\* The handler takes no lock and opens no transaction around its two
\* queries, and passes the function the student id and the target only.
\* The function reads the student's current year for from_year and then
\* writes the record and the new year as one unit; what the spec says of
\* concurrent calls for one student (the last writer wins, both may read the
\* same from_year) puts nothing between the read and the writes that would
\* keep another call out.

\* The writes of the function, with the from_year it has read.
write_student_promotion(tbl, log, now, sid, cid, yid, from_year) ==
    LET rec == [promotion_id |-> Len(log) + 1,
                student_id |-> sid,
                course_id |-> cid,
                from_year |-> from_year,
                to_year |-> yid,
                created_at |-> now]
    IN  [students |-> [tbl EXCEPT ![sid].academic_course_year_id = yid],
         promotions |-> Append(log, rec),
         promotion_id |-> rec.promotion_id]

\* The function reads the student's current year.
InsertRead(r) ==
    /\ h[r].pc = "insert"
    /\ h' = [h EXCEPT ![r].pc = "write",
                      ![r].fromYear = students[h[r].studentId].academic_course_year_id]
    /\ UNCHANGED <<students, promotions, clock, lookup, answer, served, otherRouters>>

\* The function writes the record and the year and returns the new id; the
\* handler records it and goes on to the next item.
InsertWrite(r) ==
    /\ h[r].pc = "write"
    /\ \E now \in {clock, clock + 1} :
          LET out == write_student_promotion(students, promotions, now, h[r].studentId,
                                             h[r].courseId, h[r].academicCourseYearId,
                                             h[r].fromYear)
          IN  /\ students' = out.students
              /\ promotions' = out.promotions
              /\ clock' = now
              /\ h' = [h EXCEPT ![r] = AfterInsert(@, out.promotion_id)]
    /\ UNCHANGED <<lookup, answer, served, otherRouters>>

\* The function raises before it has written: the inner catch answers 500.
InsertWriteError(r) ==
    /\ h[r].pc = "write"
    /\ h' = [h EXCEPT ![r] = Reply(@, 500, <<>>)]
    /\ UNCHANGED <<students, promotions, clock, lookup, answer, served, otherRouters>>

NextIsolation ==
    \/ \E r \in Idle, b \in ConcBatches : Post(r, b)
    \/ \E r \in Handlers : Lookup(r)
    \/ \E r \in Handlers : LookupError(r)
    \/ \E r \in Handlers : InsertRead(r)
    \/ \E r \in Handlers : InsertError(r)
    \/ \E r \in Handlers : InsertWrite(r)
    \/ \E r \in Handlers : InsertWriteError(r)

SpecIsolation == InitTwo /\ [][NextIsolation]_vars

\* ---------------------------------------------------------------- C26
\* C26: no lost update under concurrency.  Under no interleaving of two
\* concurrent promotions of one student do both records carry the same
\* from_year: the record written second starts from the year the record
\* written first led to.
C26_NoLostUpdate ==
    \A i, j \in 1..Len(promotions) :
        i < j /\ promotions[i].student_id = promotions[j].student_id =>
            /\ promotions[i].from_year # promotions[j].from_year
            /\ PreviousRecord(j) = i => promotions[j].from_year = promotions[i].to_year

\* ---------------------------------------------------------------- C27
\* C27: an item whose course_id is not the enrollment course of its student
\* creates no PromotionRecord, so every PromotionRecord's course_id is the
\* course_id of its student.  Stated for requests whose items are all valid.
C27_RecordCourseIsEnrollmentCourse ==
    \A r \in Handlers :
        h[r].pc \notin {"off", "idle"} /\ ValidBatch(h[r].body) =>
            \A j \in 1..Len(promotions) :
                promotions[j].course_id = students[promotions[j].student_id].course_id

\* ---------------------------------------------------------------- C28
\* C28: every PromotionRecord moves its student forward, to_year being
\* later than from_year: a request to promote a student to the year the
\* student is in, or to an earlier one, creates no record.  Stated for
\* requests whose items are all valid.
C28_RecordsMoveForward ==
    \A r \in Handlers :
        h[r].pc \notin {"off", "idle"} /\ ValidBatch(h[r].body) =>
            \A j \in 1..Len(promotions) : promotions[j].to_year > promotions[j].from_year

\* ---------------------------------------------------------------- every path of the handler
\* The stored function returns without an id (lines 92-94 push nothing):
\* the handler goes on to the next item.  Nothing is taken to be written.
InsertNoId(r) ==
    /\ h[r].pc = "insert"
    /\ h' = [h EXCEPT ![r] = LoopHead(@, h[r].idx + 1)]
    /\ UNCHANGED <<students, promotions, clock, lookup, answer, served, otherRouters>>

\* Batches of every kind of item, short enough for the search for a
\* request that never ends.
PathBatches == UNION {[1..n -> PromotionItems] : n \in 0..MaxSeqBatch}

NextPaths ==
    \/ \E r \in Idle, b \in PathBatches : Post(r, b)
    \/ \E r \in Handlers : Lookup(r)
    \/ \E r \in Handlers : LookupError(r)
    \/ \E r \in Handlers : Insert(r)
    \/ \E r \in Handlers : InsertError(r)
    \/ \E r \in Handlers : InsertNoId(r)

\* Every database call returns or throws.
QueriesComplete ==
    \A r \in Handlers :
        /\ WF_vars(Lookup(r) \/ LookupError(r))
        /\ WF_vars(Insert(r) \/ InsertError(r) \/ InsertNoId(r))

SpecPaths == Init /\ [][NextPaths]_vars /\ QueriesComplete

\* ---------------------------------------------------------------- C29
\* C29: every POST /promotions request ends with exactly one response on
\* every path: a handler never responds twice, it has responded exactly
\* when it has finished, and a handler waiting for a database call gets to
\* its response, provided every database call returns or throws.
C29_ExactlyOneResponse ==
    /\ [](\A r \in Handlers :
             /\ h[r].responses <= 1
             /\ Done(r) <=> h[r].responses = 1)
    /\ \A r \in Handlers : (h[r].pc \in {"lookup", "insert"}) ~> Done(r)

\* The function returned no id for the only item: the code after the loop
\* answered 400 with nothing recorded.
C29_Witness ==
    \E r \in Handlers :
        /\ Done(r)
        /\ h[r].responses = 1
        /\ h[r].status = 400
        /\ ValidBatch(h[r].body)
        /\ Known(h[r].body[1].username)
        /\ promotions = <<>>

\* ---------------------------------------------------------------- C30
\* C30: resubmitting a batch is safe.  When the same batch has been sent
\* twice, one request after the other, no student has two PromotionRecords
\* for the same requested transition (course and target year).
C30_ResubmissionSafe ==
    \A r1, r2 \in Handlers :
        (/\ r1 # r2
         /\ Done(r1) /\ Done(r2)
         /\ h[r1].body = h[r2].body)
        => \A i, j \in 1..Len(promotions) :
              (/\ promotions[i].student_id = promotions[j].student_id
               /\ promotions[i].course_id = promotions[j].course_id
               /\ promotions[i].to_year = promotions[j].to_year)
              => i = j

====
